---- MODULE Spec2Model ----
(***************************************************************************)
(* Model of nldxtd/table-extract: the table geometry classes of            *)
(* src/tags/table.py, the CSS/attribute mapper of src/attribute.py and the *)
(* tree walk of src/table_processing.py.                                   *)
(*                                                                         *)
(* A Python str is a sequence of one-character strings, so that len(),     *)
(* split("\n"), join() and format padding are computed, not assumed.       *)
(***************************************************************************)
EXTENDS Integers, Sequences, FiniteSets, TLC

VARIABLES
    rows,      \* Table.rows: sequence of rows, a row is its `columns` list
    outs,      \* the values returned by the last two calls of Table.get_text
    ret,       \* outcome of the last cellWidth / rowWidth / rowText query
    cell0,     \* cell universe: the cell as constructed and normalized
    cell,      \* cell universe: the cell after the setters applied so far
    hist,      \* cell universe: the setters applied so far, in order
    element,   \* style universe: the HtmlElement fields
    call,      \* style universe: the last CssParse / Attribute call and its outcome
    emIn,      \* length universe: the argument of _get_em
    emOut,     \* length universe: the outcome of _get_em
    tree,      \* walk universe: the tree handed to _parse_html_tree
    frames,    \* walk universe: the interpreter's call frames of _parse_html_tree
    tags,      \* walk universe: state.tags, the frame stack of HtmlDocumentState
    trace      \* walk universe: the calls made so far, in order

vars == <<rows, outs, ret, cell0, cell, hist, element, call, emIn, emOut,
          tree, frames, tags, trace>>

tableVars == <<rows, outs, ret>>
cellVars  == <<cell0, cell, hist>>
cssVars   == <<element, call>>
emVars    == <<emIn, emOut>>
walkVars  == <<tree, frames, tags, trace>>

-----------------------------------------------------------------------------
(* Bounds of the model.                                                    *)

MaxSize == 7   \* size of a table: its rows, its cells and what was written
               \* into them (characters and block boundaries)
MaxCellText == 4 \* cell universe: characters and block boundaries of the cell
MaxHeight == 4   \* cell universe: largest height handed to the height setter
MaxWidth == 3    \* cell universe: largest width handed to the width setter
MaxDirectives == 4 \* style universe: calls on an element, their directives and attributes
MaxWhole == 20   \* length universe: largest integer part of a length
MaxNodes == 4    \* walk universe: nodes of the tree handed to the walker

-----------------------------------------------------------------------------
(* Python values.                                                          *)

NL == "\n"
SP == " "
None == -1              \* TableCell._width = None (a width is never negative)
NoLineWidth == <<None>> \* TableCell.line_width = None (a length is never negative)

Max(a, b) == IF a >= b THEN a ELSE b

RECURSIVE MaxOf(_)
\* max(iterable) of a non-empty sequence of integers
MaxOf(s) == IF Len(s) = 1 THEN s[1] ELSE Max(s[1], MaxOf(Tail(s)))

RECURSIVE Repeat(_, _)
\* n * [x]; the empty list when n <= 0
Repeat(x, n) == IF n <= 0 THEN <<>> ELSE <<x>> \o Repeat(x, n - 1)

RECURSIVE Flatten(_)
\* list(chain(*lists))
Flatten(ss) == IF ss = <<>> THEN <<>> ELSE Head(ss) \o Flatten(Tail(ss))

RECURSIVE SplitOn(_, _, _)
\* s.split(ch) with `cur` the piece collected so far: "" splits into [""]
SplitOn(s, ch, cur) ==
    IF s = <<>> THEN <<cur>>
    ELSE IF Head(s) = ch THEN <<cur>> \o SplitOn(Tail(s), ch, <<>>)
    ELSE SplitOn(Tail(s), ch, Append(cur, Head(s)))

\* s.split("\n")
split(s) == SplitOn(s, NL, <<>>)

RECURSIVE join(_, _)
\* sep.join(parts)
join(sep, parts) ==
    IF parts = <<>> THEN <<>>
    ELSE IF Len(parts) = 1 THEN parts[1]
    ELSE parts[1] \o sep \o join(sep, Tail(parts))

\* HorizontalAlignment.value: the format-spec alignment character
AlignValue(align) ==
    CASE align = "left" -> "<"
      [] align = "right" -> ">"
      [] align = "center" -> "^"

\* "{:<align><width>}".format(b): pads to at least `width`, never truncates;
\* centring puts the smaller half of the padding on the left
format(alignChar, width, b) ==
    LET pad == width - Len(b)
    IN  IF pad <= 0 THEN b
        ELSE CASE alignChar = "<" -> b \o Repeat(SP, pad)
               [] alignChar = ">" -> Repeat(SP, pad) \o b
               [] alignChar = "^" ->
                     Repeat(SP, pad \div 2) \o b \o Repeat(SP, pad - pad \div 2)

HorizontalAlignment == {"left", "right", "center"}
VerticalAlignment == {"top", "middle", "bottom"}

-----------------------------------------------------------------------------
(* Canvas and TableCell.                                                   *)

\* TableCell.__init__ on top of Canvas.__init__
TableCell(align, valign) ==
    [blocks |-> <<>>, current_block |-> <<>>, align |-> align, valign |-> valign,
     width |-> None, line_width |-> NoLineWidth, vertical_padding |-> 0]

\* Canvas.write: appends to the pending inline buffer, no-op on empty text
write(c, text) ==
    IF text = <<>> THEN c ELSE [c EXCEPT !.current_block = @ \o text]

\* Canvas.flush_inline: seals a non-empty pending buffer into a new block
flush_inline(c) ==
    IF c.current_block = <<>> THEN c
    ELSE [c EXCEPT !.blocks = Append(@, c.current_block), !.current_block = <<>>]

\* Canvas.write_newline: forces a block boundary
write_newline(c) ==
    IF c.current_block = <<>> THEN [c EXCEPT !.blocks = Append(@, <<>>)]
    ELSE flush_inline(c)

\* TableCell.normalize_blocks: the cell afterwards (its return value is the
\* number of blocks of that cell)
normalize_blocks(c) ==
    LET f == flush_inline(c)
        lines == Flatten([i \in 1..Len(f.blocks) |-> split(f.blocks[i])])
    IN  [f EXCEPT !.blocks = IF lines = <<>> THEN <<<<>>>> ELSE lines]

\* TableCell.height (getter)
TableCell_height(c) == Max(1, Len(c.blocks))

\* TableCell.width (getter): exc = "ValueError" is max() of an empty sequence
TableCell_width(c) ==
    IF c.width # None /\ c.width # 0 THEN [exc |-> "", val |-> c.width]
    ELSE LET lines == Flatten([i \in 1..Len(c.blocks) |-> split(c.blocks[i])])
         IN  IF lines = <<>> THEN [exc |-> "ValueError", val |-> 0]
             ELSE [exc |-> "",
                   val |-> MaxOf([i \in 1..Len(lines) |-> Len(lines[i])])]

\* TableCell.width (setter) that leaves empty blocks alone
TableCell_set_width_SkipEmpty(c, width) ==
    [c EXCEPT !.line_width = [i \in 1..Len(c.blocks) |-> Len(c.blocks[i])],
              !.width = width,
              !.blocks = [i \in 1..Len(c.blocks) |->
                             IF c.blocks[i] = <<>> THEN <<>>
                             ELSE format(AlignValue(c.align), width, c.blocks[i])]]

\* TableCell.width (setter)
TableCell_set_width(c, width) ==
    [c EXCEPT !.line_width = [i \in 1..Len(c.blocks) |-> Len(c.blocks[i])],
              !.width = width,
              !.blocks = [i \in 1..Len(c.blocks) |->
                             format(AlignValue(c.align), width, c.blocks[i])]]

\* TableCell.height (setter) with the guard and the count off by one: grows a
\* cell that already has the height
TableCell_set_height_OffByOne(c, height) ==
    LET n == Len(c.blocks)
    IN  IF n <= height
        THEN IF c.valign = "bottom"
             THEN [c EXCEPT !.vertical_padding = height - n + 1,
                            !.blocks = Repeat(<<>>, height - n + 1) \o @]
             ELSE IF c.valign = "middle"
             THEN [c EXCEPT !.vertical_padding = (height - n + 1) \div 2,
                            !.blocks = Repeat(<<>>, (height - n + 1) \div 2) \o @
                                       \o Repeat(<<>>, (height - n + 2) \div 2)]
             ELSE [c EXCEPT !.blocks = @ \o Repeat(<<>>, height - n + 1)]
        ELSE c

\* TableCell.height (setter) that puts the larger half of the blank lines
\* before the content of a cell aligned to the middle
TableCell_set_height_CeilFirst(c, height) ==
    LET n == Len(c.blocks)
    IN  IF n < height
        THEN IF c.valign = "bottom"
             THEN [c EXCEPT !.vertical_padding = height - n,
                            !.blocks = Repeat(<<>>, height - n) \o @]
             ELSE IF c.valign = "middle"
             THEN [c EXCEPT !.vertical_padding = (height - n + 1) \div 2,
                            !.blocks = Repeat(<<>>, (height - n + 1) \div 2) \o @
                                       \o Repeat(<<>>, (height - n) \div 2)]
             ELSE [c EXCEPT !.blocks = @ \o Repeat(<<>>, height - n)]
        ELSE c

\* TableCell.height (setter)
TableCell_set_height(c, height) ==
    LET n == Len(c.blocks)
    IN  IF n < height
        THEN IF c.valign = "bottom"
             THEN [c EXCEPT !.vertical_padding = height - n,
                            !.blocks = Repeat(<<>>, height - n) \o @]
             ELSE IF c.valign = "middle"
             THEN [c EXCEPT !.vertical_padding = (height - n) \div 2,
                            !.blocks = Repeat(<<>>, (height - n) \div 2) \o @
                                       \o Repeat(<<>>, (height - n + 1) \div 2)]
             ELSE [c EXCEPT !.blocks = @ \o Repeat(<<>>, height - n)]
        ELSE c

-----------------------------------------------------------------------------
(* TableRow and Table.                                                     *)

\* Table.cell_separator / TableRow.cell_separator, fixed at construction
cell_separator == <<SP, "|">>

\* zip(*[column.blocks for column in columns]): one tuple per line index up
\* to the shortest cell; no tuple at all for a row without cells
zip(columns) ==
    IF columns = <<>> THEN <<>>
    ELSE LET n == CHOOSE m \in 0..MaxOf([i \in 1..Len(columns) |-> Len(columns[i].blocks)]) :
                     /\ \A i \in 1..Len(columns) : m <= Len(columns[i].blocks)
                     /\ \E i \in 1..Len(columns) : m = Len(columns[i].blocks)
         IN  [j \in 1..n |-> [i \in 1..Len(columns) |-> columns[i].blocks[j]]]

\* TableRow.get_text
TableRow_get_text(columns) ==
    LET z == zip(columns)
    IN  join(<<NL>>, [j \in 1..Len(z) |-> join(cell_separator, z[j])])

\* TableRow.width: exc is the exception of the first cell width that raises
TableRow_width(columns) ==
    IF columns = <<>> THEN [exc |-> "", val |-> 0]
    ELSE LET w == [i \in 1..Len(columns) |-> TableCell_width(columns[i])]
             RECURSIVE Sum(_)
             Sum(k) == IF k = 0 THEN 0 ELSE w[k].val + Sum(k - 1)
         IN  IF \E i \in 1..Len(columns) : w[i].exc # ""
             THEN [exc |-> "ValueError", val |-> 0]
             ELSE [exc |-> "",
                   val |-> Sum(Len(columns)) + Len(cell_separator) * (Len(columns) - 1)]

\* Table.add_row
add_row(rs) == Append(rs, <<>>)

\* Table.add_cell
add_cell(rs, table_cell) ==
    LET rs1 == IF rs = <<>> THEN add_row(rs) ELSE rs
    IN  [rs1 EXCEPT ![Len(rs1)] = Append(@, table_cell)]

\* one iteration of the loop of Table._set_row_height that normalizes the cells
\* and forgets to grow them
set_one_row_height_NoGrow(columns) ==
    [i \in 1..Len(columns) |-> normalize_blocks(columns[i])]

\* one iteration of the loop of Table._set_row_height
set_one_row_height(columns) ==
    LET norm == [i \in 1..Len(columns) |-> normalize_blocks(columns[i])]
        max_row_height ==
            IF columns # <<>>
            THEN MaxOf([i \in 1..Len(norm) |-> Len(norm[i].blocks)])
            ELSE 0
    IN  [i \in 1..Len(columns) |-> TableCell_set_height(norm[i], max_row_height)]

\* Table._set_row_height
_set_row_height(rs) == [r \in 1..Len(rs) |-> set_one_row_height(rs[r])]

\* the cells present at column index idx (counted from 1), top to bottom
ColumnCells(rs, idx) ==
    LET RECURSIVE From(_)
        From(r) == IF r > Len(rs) THEN <<>>
                   ELSE (IF Len(rs[r]) >= idx THEN <<rs[r][idx]>> ELSE <<>>)
                        \o From(r + 1)
    IN  From(1)

\* one iteration of the loop of Table._set_column_width that takes the width
\* of the topmost cell of the column instead of the maximum
set_one_column_width_First(rs, idx) ==
    LET cs == ColumnCells(rs, idx)
        max_column_width == TableCell_width(cs[1]).val
    IN  [r \in 1..Len(rs) |->
            IF Len(rs[r]) >= idx
            THEN [rs[r] EXCEPT ![idx] = TableCell_set_width(@, max_column_width)]
            ELSE rs[r]]

\* one iteration of the loop of Table._set_column_width, for column idx
set_one_column_width(rs, idx) ==
    LET cs == ColumnCells(rs, idx)
        max_column_width == MaxOf([i \in 1..Len(cs) |-> TableCell_width(cs[i]).val])
    IN  [r \in 1..Len(rs) |->
            IF Len(rs[r]) >= idx
            THEN [rs[r] EXCEPT ![idx] = TableCell_set_width(@, max_column_width)]
            ELSE rs[r]]

RECURSIVE set_columns_from(_, _, _)
\* the loop of Table._set_column_width from column idx on
set_columns_from(rs, idx, max_columns) ==
    IF idx > max_columns THEN rs
    ELSE set_columns_from(set_one_column_width(rs, idx), idx + 1, max_columns)

\* Table._set_column_width (called with at least one row)
_set_column_width(rs) ==
    set_columns_from(rs, 1, MaxOf([r \in 1..Len(rs) |-> Len(rs[r])]))

\* whether a cell width read by Table._set_column_width raises
column_width_raises(rs) ==
    \E r \in 1..Len(rs) : \E i \in 1..Len(rs[r]) : TableCell_width(rs[r][i]).exc # ""

\* Table.get_text: the rows it leaves behind (the passes stop at a raise)
Table_get_text_rows(rs) ==
    IF rs = <<>> THEN rs
    ELSE LET high == _set_row_height(rs)
         IN  IF column_width_raises(high) THEN high ELSE _set_column_width(high)

\* Table.get_text: the value it returns, from the rows it leaves behind
Table_get_text(rs, done) ==
    IF rs = <<>> THEN [exc |-> "", val |-> <<NL>>]
    ELSE IF column_width_raises(done) THEN [exc |-> "ValueError", val |-> <<>>]
    ELSE [exc |-> "",
          val |-> join(<<NL>>, [r \in 1..Len(done) |-> TableRow_get_text(done[r])])
                  \o <<NL>>]

-----------------------------------------------------------------------------
(* The table universe: a table is built by the tag handlers (a row per     *)
(* <tr>, a cell per <td>/<th>, text written into the cell that is open),   *)
(* and queried and rendered at any moment.                                  *)

\* the texts one canvas write may carry
Texts == {<<"a">>, <<"b", NL, "c">>}

RECURSIVE SumLen(_)
SumLen(ss) == IF ss = <<>> THEN 0 ELSE Len(Head(ss)) + SumLen(Tail(ss))

\* what has been written into a cell: its characters and block boundaries
CellSize(c) == SumLen(c.blocks) + Len(c.blocks) + Len(c.current_block)

RECURSIVE SumSize(_)
SumSize(cs) == IF cs = <<>> THEN 0 ELSE CellSize(Head(cs)) + SumSize(Tail(cs))

\* rows + cells + what has been written into the cells
TableSize(rs) == Len(rs) + Len(Flatten(rs)) + SumSize(Flatten(rs))

\* the cell the open <td> writes into: the last cell of the last row
HasOpenCell(rs) == rs # <<>> /\ rs[Len(rs)] # <<>>

OnOpenCell(rs, c) == [rs EXCEPT ![Len(rs)][Len(rs[Len(rs)])] = c]

OpenCell(rs) == rs[Len(rs)][Len(rs[Len(rs)])]

\* the (align, valign) pairs a <td> carries in the table universe: the
\* defaults of an element and a pair that pads on both sides and on top; the
\* cell universe below draws every pair
Alignments == {<<"left", "middle">>, <<"center", "bottom">>}

NoRet == [op |-> "", exc |-> "", val |-> 0]

InitTable == rows = <<>> /\ outs = <<>> /\ ret = NoRet

AddRow ==
    /\ outs = <<>>
    /\ TableSize(rows) + 1 <= MaxSize
    /\ rows' = add_row(rows)
    /\ ret' = NoRet
    /\ UNCHANGED outs

AddCell ==
    /\ outs = <<>>
    /\ \E a \in Alignments :
           /\ rows' = add_cell(rows, TableCell(a[1], a[2]))
           /\ TableSize(rows') <= MaxSize
    /\ ret' = NoRet
    /\ UNCHANGED outs

Write ==
    /\ outs = <<>>
    /\ HasOpenCell(rows)
    /\ \E text \in Texts :
           /\ TableSize(rows) + Len(text) <= MaxSize
           /\ rows' = OnOpenCell(rows, write(OpenCell(rows), text))
    /\ ret' = NoRet
    /\ UNCHANGED outs

WriteNewline ==
    /\ outs = <<>>
    /\ HasOpenCell(rows)
    /\ TableSize(rows) + 1 <= MaxSize
    /\ rows' = OnOpenCell(rows, write_newline(OpenCell(rows)))
    /\ ret' = NoRet
    /\ UNCHANGED outs

\* tableText
GetText ==
    /\ rows' = Table_get_text_rows(rows)
    /\ outs' = IF Len(outs) = 2 THEN <<outs[2], Table_get_text(rows, rows')>>
                ELSE Append(outs, Table_get_text(rows, rows'))
    /\ ret' = NoRet

\* cellWidth
CellWidth ==
    /\ \E r \in 1..Len(rows) : \E i \in 1..Len(rows[r]) :
           ret' = [op |-> "cellWidth"] @@ TableCell_width(rows[r][i])
    /\ UNCHANGED <<rows, outs>>

\* rowWidth
RowWidth ==
    /\ \E r \in 1..Len(rows) : ret' = [op |-> "rowWidth"] @@ TableRow_width(rows[r])
    /\ UNCHANGED <<rows, outs>>

\* rowText
RowText ==
    /\ \E r \in 1..Len(rows) :
           ret' = [op |-> "rowText", exc |-> "", val |-> TableRow_get_text(rows[r])]
    /\ UNCHANGED <<rows, outs>>

NextTable ==
    \/ AddRow
    \/ AddCell
    \/ Write
    \/ WriteNewline
    \/ GetText

NextOps ==
    \/ NextTable
    \/ CellWidth
    \/ RowWidth
    \/ RowText

InitCellIdle == cell0 = <<>> /\ cell = <<>> /\ hist = <<>>
InitCssIdle  == element = <<>> /\ call = <<>>
InitEmIdle   == emIn = <<>> /\ emOut = <<>>
InitWalkIdle == tree = <<>> /\ frames = <<>> /\ tags = <<>> /\ trace = <<>>

Init == InitTable /\ InitCellIdle /\ InitCssIdle /\ InitEmIdle /\ InitWalkIdle

Next == NextTable /\ UNCHANGED <<cellVars, cssVars, emVars, walkVars>>

Spec == Init /\ [][Next]_vars

SpecOps == Init /\ [][NextOps /\ UNCHANGED <<cellVars, cssVars, emVars, walkVars>>]_vars

-----------------------------------------------------------------------------
(* Properties of the table universe.                                       *)

\* the visual lines a cell holds: its blocks and its pending text, split on
\* the embedded line breaks; one empty line for a cell that holds nothing
LinesOf(c) ==
    LET all == Flatten([i \in 1..Len(c.blocks) |-> split(c.blocks[i])])
               \o (IF c.current_block = <<>> THEN <<>> ELSE split(c.current_block))
    IN  IF all = <<>> THEN <<<<>>>> ELSE all

LongestLine(c) == LET l == LinesOf(c) IN MaxOf([i \in 1..Len(l) |-> Len(l[i])])

Strip(line) == SelectSeq(line, LAMBDA ch : ch # SP)

\* a step in which Table.get_text ran on a table with at least one row
Rendered == rows # <<>> /\ outs' # outs

LastOut == outs[Len(outs)]

IsRagged(rs) == \E r1, r2 \in 1..Len(rs) : Len(rs[r1]) # Len(rs[r2])

\* C1: two calls of Table.get_text in a row, with no write in between,
\* return the same text.
C1_RenderTwiceSameText == Len(outs) = 2 => outs[1] = outs[2]

\* a ragged table with a cell of several lines, a row without cells and a
\* centred cell that was padded has been rendered twice
C1_Witness ==
    /\ Len(outs) = 2
    /\ outs[2].exc = ""
    /\ IsRagged(rows)
    /\ \E r \in 1..Len(rows) : rows[r] = <<>>
    /\ \E r \in 1..Len(rows) : \E i \in 1..Len(rows[r]) :
           /\ Len(rows[r][i].blocks) > 1
           /\ rows[r][i].align = "center"
           /\ \E j \in 1..Len(rows[r][i].blocks) :
                  rows[r][i].blocks[j] # Strip(rows[r][i].blocks[j])

\* the widest line among the cells present at column idx before the pass
ColumnWidthBefore(rs, idx) ==
    LET cs == ColumnCells(rs, idx)
    IN  MaxOf([i \in 1..Len(cs) |-> LongestLine(cs[i])])

\* C2: after Table.get_text on a table with at least one row, every line of
\* every cell present at column i has exactly the length of the longest line
\* the cells present at column i had before the column-width pass.
C2_ColumnWidths ==
    [][Rendered =>
          \A r \in 1..Len(rows') : \A i \in 1..Len(rows'[r]) :
              \A j \in 1..Len(rows'[r][i].blocks) :
                  Len(rows'[r][i].blocks[j]) = ColumnWidthBefore(rows, i)]_vars

\* a rendered ragged table in which a column holds a padded line and a line
\* that needed no padding, the longer one not in the top row
C2_Witness ==
    /\ outs # <<>>
    /\ IsRagged(rows)
    /\ Len(rows) >= 2 /\ rows[1] # <<>> /\ rows[2] # <<>>
    /\ \E j \in 1..Len(rows[1][1].blocks) :
           Len(Strip(rows[1][1].blocks[j])) < Len(rows[1][1].blocks[j])
    /\ \E j \in 1..Len(rows[2][1].blocks) :
           /\ rows[2][1].blocks[j] # <<>>
           /\ Strip(rows[2][1].blocks[j]) = rows[2][1].blocks[j]

\* the lines of the returned text, without the piece after the final break
TextLines(text) == LET l == split(text) IN SubSeq(l, 1, Len(l) - 1)

\* the number of lines a row takes in the text, from the row before the call
RowHeightBefore(columns) ==
    IF columns = <<>> THEN 1
    ELSE MaxOf([i \in 1..Len(columns) |-> Len(LinesOf(columns[i]))])

RECURSIVE DropLines(_, _, _)
\* the text lines left after the lines of the rows before row r
DropLines(text, rs, r) ==
    IF r = 1 THEN text
    ELSE LET rest == DropLines(text, rs, r - 1)
             h == RowHeightBefore(rs[r - 1])
         IN  IF Len(rest) < h THEN <<>> ELSE SubSeq(rest, h + 1, Len(rest))

\* line j of the text, cut at the separators, is made of k pieces and piece
\* i of the lines 1..h holds the lines of cell i, in order and in one piece,
\* up to the padding, every other piece being blank
RowHoldsCells(mine, columns, h) ==
    \A cut \in {[j \in 1..h |-> SplitOn(mine[j], "|", <<>>)]} :
        /\ \A j \in 1..h : Len(cut[j]) = Len(columns)
        /\ \A i \in 1..Len(columns) :
              \A orig \in {LinesOf(columns[i])} :
                  \E off \in 0..(h - Len(orig)) :
                      \A m \in 1..h :
                          IF m > off /\ m <= off + Len(orig)
                          THEN Strip(cut[m][i]) = Strip(orig[m - off])
                          ELSE Strip(cut[m][i]) = <<>>

\* C3: in the returned text a row of k >= 1 cells whose tallest cell has h
\* lines takes exactly h lines, each made of exactly k cell lines joined by
\* k-1 separators, and every line of every cell of the row is in them, in
\* order; a row with fewer cells than another gets no cell added.
C3_RowLines ==
    [][Rendered =>
          \A text \in {TextLines(outs'[Len(outs')].val)} :
              /\ DropLines(text, rows, Len(rows) + 1) = <<>>
              /\ \A r \in 1..Len(rows) :
                    \A rest \in {DropLines(text, rows, r)} :
                        /\ Len(rest) >= RowHeightBefore(rows[r])
                        /\ Len(rows'[r]) = Len(rows[r])
                        /\ rows[r] # <<>> =>
                              RowHoldsCells(rest, rows[r], RowHeightBefore(rows[r]))]_vars

\* a rendered table whose first row has one cell and whose second row has
\* two cells of two lines, one of them not blank
C3_Witness ==
    /\ outs # <<>>
    /\ Len(rows) = 2 /\ Len(rows[1]) = 1 /\ Len(rows[2]) = 2
    /\ Len(rows[2][1].blocks) = 2 /\ Len(rows[2][2].blocks) = 2
    /\ \E i, j \in 1..2 : Strip(rows[2][i].blocks[j]) # <<>>

\* C4: cellWidth, rowWidth, rowText and tableText return a value in every
\* reachable state, and a table without rows renders as one line break.
C4_NoOperationFails ==
    /\ ret.exc = ""
    /\ \A n \in 1..Len(outs) : outs[n].exc = ""
    /\ (rows = <<>> /\ outs # <<>>) => LastOut.val = <<NL>>

-----------------------------------------------------------------------------
(* The cell universe: one TableCell is constructed, written into and       *)
(* possibly normalized; then its height and width setters are applied, at  *)
(* most two applications, in any order and with any argument.              *)

InitCell ==
    /\ \E align \in HorizontalAlignment, valign \in VerticalAlignment :
           cell0 = TableCell(align, valign)
    /\ cell = cell0
    /\ hist = <<>>

CellWrite ==
    /\ hist = <<>>
    /\ \E text \in Texts :
           /\ CellSize(cell) + Len(text) <= MaxCellText
           /\ cell' = write(cell, text)
    /\ cell0' = cell'
    /\ UNCHANGED hist

CellWriteNewline ==
    /\ hist = <<>>
    /\ CellSize(cell) + 1 <= MaxCellText
    /\ cell' = write_newline(cell)
    /\ cell0' = cell'
    /\ UNCHANGED hist

CellNormalize ==
    /\ hist = <<>>
    /\ cell' = normalize_blocks(cell)
    /\ cell0' = cell'
    /\ UNCHANGED hist

SetCellHeight ==
    /\ Len(hist) < 2
    /\ \E height \in 0..MaxHeight :
           /\ cell' = TableCell_set_height(cell, height)
           /\ hist' = Append(hist, [op |-> "height", arg |-> height])
    /\ UNCHANGED cell0

SetCellWidth ==
    /\ Len(hist) < 2
    /\ \E width \in 0..MaxWidth :
           /\ cell' = TableCell_set_width(cell, width)
           /\ hist' = Append(hist, [op |-> "width", arg |-> width])
    /\ UNCHANGED cell0

NextCell ==
    \/ CellWrite
    \/ CellWriteNewline
    \/ CellNormalize
    \/ SetCellHeight
    \/ SetCellWidth

CellInit == InitCell /\ InitTable /\ InitCssIdle /\ InitEmIdle /\ InitWalkIdle

CellNext == NextCell /\ UNCHANGED <<tableVars, cssVars, emVars, walkVars>>

SpecCell == CellInit /\ [][CellNext]_vars

\* a cell after normalize_blocks: nothing pending, one line per block
IsNormalized(c) ==
    /\ c.current_block = <<>>
    /\ c.blocks # <<>>
    /\ \A i \in 1..Len(c.blocks) : \A n \in 1..Len(c.blocks[i]) : c.blocks[i][n] # NL

\* the blank lines a growth from n lines to `height` puts before the content
BlankBefore(valign, n, height) ==
    IF height <= n THEN 0
    ELSE IF valign = "bottom" THEN height - n
    ELSE IF valign = "middle" THEN (height - n) \div 2
    ELSE 0

\* C5: the height setter applied to a cell of c lines with target t leaves
\* max(c, t) lines: the c lines, in order and in one piece, after t-c blank
\* lines (bottom), floor((t-c)/2) blank lines (middle) or none (top), the
\* other blank lines behind them; with t <= c the lines are unchanged.
C5_HeightGrowth ==
    (hist # <<>> /\ hist[1].op = "height" /\ Len(hist) = 1) =>
        LET n == Len(cell0.blocks)
            t == hist[1].arg
            before == BlankBefore(cell0.valign, n, t)
        IN  /\ Len(cell.blocks) = Max(n, t)
            /\ \A m \in 1..Len(cell.blocks) :
                  IF m > before /\ m <= before + n
                  THEN cell.blocks[m] = cell0.blocks[m - before]
                  ELSE cell.blocks[m] = <<>>
            /\ t <= n => cell.blocks = cell0.blocks

\* a one-line cell aligned to the middle was grown to height 4: one blank
\* line before its line and two behind
C5_Witness ==
    /\ hist = <<[op |-> "height", arg |-> 4]>>
    /\ cell0.valign = "middle"
    /\ Len(cell0.blocks) = 1 /\ cell0.blocks[1] # <<>>
    /\ cell.blocks = <<<<>>, cell0.blocks[1], <<>>, <<>>>>

\* the cell that the width setter and then the height setter make of c
WidthThenHeight(c, width, height) ==
    TableCell_set_height(TableCell_set_width(c, width), height)

HeightThenWidth == Len(hist) = 2 /\ hist[1].op = "height" /\ hist[2].op = "width"

\* C10 as stated: on a normalized cell the height setter followed by the
\* width setter leaves the lines, the width and the line count that the width
\* setter followed by the height setter leaves.
C10_OrderInsensitive ==
    (HeightThenWidth /\ IsNormalized(cell0)) =>
        LET other == WidthThenHeight(cell0, hist[2].arg, hist[1].arg)
        IN  /\ cell.blocks = other.blocks
            /\ TableCell_width(cell) = TableCell_width(other)
            /\ Len(cell.blocks) = Len(other.blocks)

\* C10 as amended: the two orders leave the same width and the same line
\* count and the same lines where the cell had a line; a blank line added by
\* the growth is w spaces when the width is set after the growth and empty
\* when the width was set before it.
C10_OrderUpToAddedLines ==
    (HeightThenWidth /\ IsNormalized(cell0)) =>
        LET h == hist[1].arg
            w == hist[2].arg
            n == Len(cell0.blocks)
            before == BlankBefore(cell0.valign, n, h)
            other == WidthThenHeight(cell0, w, h)
        IN  /\ TableCell_width(cell) = TableCell_width(other)
            /\ Len(cell.blocks) = Len(other.blocks)
            /\ \A m \in 1..Len(cell.blocks) :
                  IF m > before /\ m <= before + n
                  THEN cell.blocks[m] = other.blocks[m]
                  ELSE other.blocks[m] = <<>> /\ cell.blocks[m] = Repeat(SP, w)

\* a normalized centred cell with a line of text was grown and then padded
C10_Witness ==
    /\ HeightThenWidth /\ IsNormalized(cell0)
    /\ cell0.align = "center"
    /\ hist[1].arg > Len(cell0.blocks)
    /\ hist[2].arg > 0
    /\ \E m \in 1..Len(cell0.blocks) : Len(cell0.blocks[m]) = 1
    /\ cell.blocks # WidthThenHeight(cell0, hist[2].arg, hist[1].arg).blocks

-----------------------------------------------------------------------------
(* CssParse and Attribute.                                                 *)
(*                                                                         *)
(* A style string is the sequence of its directives (what split(";")       *)
(* yields); a directive either has no colon or is a key and a value (what  *)
(* split(":", 1) and strip yield).  A key is a sequence of tokens, so that *)
(* the two replace() calls that turn it into a method name are computed.   *)
(* A value is a keyword, a length (the text RE_UNIT matches: sign, digits, *)
(* unit) or, holding a colon itself, a style string of its own.            *)

Word(w) == [kind |-> "word", word |-> w, sign |-> 1, whole |-> 0, frac |-> None,
            unit |-> "", form |-> "", nested |-> <<>>]

\* sign * whole.frac unit, e.g. Length(-1, 8, None, "px") is "-8px" and
\* Length(1, 2, 5, "em") is "2.5em"
Length(sign, whole, frac, unit) ==
    [kind |-> "length", word |-> "", sign |-> sign, whole |-> whole, frac |-> frac,
     unit |-> unit, form |-> "finite", nested |-> <<>>]

\* digits and dots that float() rejects, e.g. "1.2.3px"
BadFloat(unit) == [Length(1, 0, None, unit) EXCEPT !.form = "badfloat"]

\* more digits than a float holds, e.g. 400 nines: float() returns inf
Huge(unit) == [Length(1, 0, None, unit) EXCEPT !.form = "inf"]

StyleValue(directives) == [Word("") EXCEPT !.kind = "style", !.nested = directives]

Directive(key, value) == [colon |-> TRUE, key |-> key, value |-> value]

NoColon == [colon |-> FALSE, key |-> <<>>, value |-> Word("")]

\* HtmlElement as constructed
HtmlElement ==
    [display |-> "inline", whitespace |-> "normal", margin_before |-> 0,
     margin_after |-> 0, padding_inline |-> 0, align |-> "left", valign |-> "middle"]

\* round(n / d) of Python 3 for d > 0: to the nearest integer, a tie to the
\* even one
round(n, d) ==
    LET q == n \div d
        r == n - q * d
    IN  IF 2 * r < d THEN q
        ELSE IF 2 * r > d THEN q + 1
        ELSE IF q % 2 = 0 THEN q ELSE q + 1

\* the float a finite length holds, in tenths
Tenths(value) ==
    value.sign * (10 * value.whole + (IF value.frac = None THEN 0 ELSE value.frac))

\* CssParse._get_em with round() resolving a tie away from zero
_get_em_HalfAway(length) ==
    LET d == IF length.unit \notin {"em", "qem", "rem"} THEN 80 ELSE 10
        n == Tenths(length)
        mag == IF n < 0 THEN -n ELSE n
        up == (2 * mag + d) \div (2 * d)
    IN  [exc |-> "", val |-> IF n < 0 THEN -up ELSE up]

\* CssParse._get_em: exc is what it raises ("" when it returns val)
_get_em(length) ==
    IF length.kind # "length" THEN [exc |-> "AttributeError", val |-> 0]
    ELSE IF length.form = "badfloat" THEN [exc |-> "ValueError", val |-> 0]
    ELSE IF length.form = "inf" THEN [exc |-> "OverflowError", val |-> 0]
    ELSE IF length.unit \notin {"em", "qem", "rem"}
    THEN [exc |-> "", val |-> round(Tenths(length), 80)]
    ELSE [exc |-> "", val |-> round(Tenths(length), 10)]

\* CssParse.attr_display without its guard
attr_display_NotSticky(value, html_element) ==
    [exc |-> "",
     el |-> IF value.word = "block" THEN [html_element EXCEPT !.display = "block"]
            ELSE IF value.word = "none" THEN [html_element EXCEPT !.display = "none"]
            ELSE [html_element EXCEPT !.display = "inline"]]

\* CssParse.attr_display
attr_display(value, html_element) ==
    [exc |-> "",
     el |-> IF html_element.display = "none" THEN html_element
            ELSE IF value.word = "block" THEN [html_element EXCEPT !.display = "block"]
            ELSE IF value.word = "none" THEN [html_element EXCEPT !.display = "none"]
            ELSE [html_element EXCEPT !.display = "inline"]]

\* CssParse.attr_white_space
attr_white_space(value, html_element) ==
    [exc |-> "",
     el |-> IF value.word \in {"normal", "nowrap"}
            THEN [html_element EXCEPT !.whitespace = "normal"]
            ELSE IF value.word \in {"pre", "pre-line", "pre-wrap"}
            THEN [html_element EXCEPT !.whitespace = "pre"]
            ELSE html_element]

\* `with suppress(ValueError): html_element.<field> = CssParse._get_em(value)`
set_em(field, value, html_element) ==
    LET em == _get_em(value)
    IN  IF em.exc = "" THEN [exc |-> "", el |-> [html_element EXCEPT ![field] = em.val]]
        ELSE IF em.exc = "ValueError" THEN [exc |-> "", el |-> html_element]
        ELSE [exc |-> em.exc, el |-> html_element]

\* CssParse.attr_margin_top = attr_margin_before
attr_margin_top(value, html_element) == set_em("margin_before", value, html_element)

\* CssParse.attr_margin_bottom = attr_margin_after
attr_margin_bottom(value, html_element) == set_em("margin_after", value, html_element)

\* CssParse.attr_padding_left = attr_padding_start
attr_padding_left(value, html_element) == set_em("padding_inline", value, html_element)

\* CssParse.attr_horizontal_align: HorizontalAlignment[value], KeyError suppressed
attr_horizontal_align(value, html_element) ==
    [exc |-> "",
     el |-> IF value.word \in HorizontalAlignment
            THEN [html_element EXCEPT !.align = value.word]
            ELSE html_element]

\* CssParse.attr_vertical_align: VerticalAlignment[value], KeyError suppressed
attr_vertical_align(value, html_element) ==
    [exc |-> "",
     el |-> IF value.word \in VerticalAlignment
            THEN [html_element EXCEPT !.valign = value.word]
            ELSE html_element]

\* key.replace("-webkit-", "").replace("-", "_")
MethodName(key) ==
    LET kept == SelectSeq(key, LAMBDA t : t # "-webkit-")
    IN  [i \in 1..Len(kept) |-> IF kept[i] = "-" THEN "_" ELSE kept[i]]

RECURSIVE attr_style(_, _)
RECURSIVE apply_style(_, _, _)

\* getattr(CssParse, "attr_" + name)(value, html_element); exc = "AttributeError"
\* also when CssParse has no such attribute
apply_style(name, value, html_element) ==
    CASE name = <<"style">> -> attr_style(value.nested, html_element)
      [] name = <<"display">> -> attr_display(value, html_element)
      [] name = <<"white", "_", "space">> -> attr_white_space(value, html_element)
      [] name \in {<<"margin", "_", "top">>, <<"margin", "_", "before">>} ->
             attr_margin_top(value, html_element)
      [] name \in {<<"margin", "_", "bottom">>, <<"margin", "_", "after">>} ->
             attr_margin_bottom(value, html_element)
      [] name \in {<<"padding", "_", "left">>, <<"padding", "_", "start">>} ->
             attr_padding_left(value, html_element)
      [] name = <<"horizontal", "_", "align">> -> attr_horizontal_align(value, html_element)
      [] name = <<"vertical", "_", "align">> -> attr_vertical_align(value, html_element)
      [] OTHER -> [exc |-> "AttributeError", el |-> html_element]

\* CssParse.attr_style: a directive without colon is skipped, AttributeError
\* is passed over, any other exception leaves the loop and the method
attr_style(style_attribute, html_element) ==
    IF style_attribute = <<>> THEN [exc |-> "", el |-> html_element]
    ELSE LET style_directive == Head(style_attribute)
         IN  IF ~style_directive.colon
             THEN attr_style(Tail(style_attribute), html_element)
             ELSE LET done == apply_style(MethodName(style_directive.key),
                                          style_directive.value, html_element)
                  IN  IF done.exc \in {"", "AttributeError"}
                      THEN attr_style(Tail(style_attribute), done.el)
                      ELSE done

RECURSIVE apply_attributes(_, _)
\* Attribute.apply_attributes with DEFAULT_ATTRIBUTE_MAP: attributes is the
\* dict in its order, a sequence of (name, value) records
apply_attributes(attributes, html_element) ==
    IF attributes = <<>> THEN [exc |-> "", el |-> html_element]
    ELSE LET attr == Head(attributes)
             done == CASE attr.name = "style" -> attr_style(attr.value.nested, html_element)
                       [] attr.name = "align" -> attr_horizontal_align(attr.value, html_element)
                       [] attr.name = "valign" -> attr_vertical_align(attr.value, html_element)
                       [] OTHER -> [exc |-> "", el |-> html_element]
         IN  IF done.exc = "" THEN apply_attributes(Tail(attributes), done.el)
             ELSE done

-----------------------------------------------------------------------------
(* The style universe: one HtmlElement, to which style strings and         *)
(* attribute maps are applied one after the other.                         *)

DisplayNone == Directive(<<"display">>, Word("none"))
DisplayBlock == Directive(<<"display">>, Word("block"))

Directives ==
    { DisplayNone,
      DisplayBlock,
      Directive(<<"display">>, Word("flex")),
      Directive(<<"white", "-", "space">>, Word("pre")),
      Directive(<<"margin", "-", "top">>, Length(1, 16, None, "px")),
      Directive(<<"margin", "-", "after">>, Word("abc")),
      Directive(<<"padding", "-", "start">>, BadFloat("px")),
      Directive(<<"padding", "-", "left">>, Huge("px")),
      Directive(<<"horizontal", "-", "align">>, Word("right")),
      Directive(<<"vertical", "-", "align">>, Word("bogus")),
      Directive(<<"-webkit-", "margin", "-", "before">>, Length(1, 2, 5, "em")),
      Directive(<<"style">>, StyleValue(<<DisplayNone>>)),
      Directive(<<"color">>, Word("red")),
      NoColon }

RECURSIVE SeqsUpTo(_, _)
\* the sequences over S of length at most n
SeqsUpTo(S, n) ==
    IF n = 0 THEN {<<>>}
    ELSE LET shorter == SeqsUpTo(S, n - 1)
         IN  shorter \cup {Append(q, x) : q \in shorter, x \in S}

Attr(name, value) == [name |-> name, value |-> value]

PlainAttrs ==
    {Attr("align", Word("center")), Attr("align", Word("CENTER")),
     Attr("valign", Word("top")), Attr("class", Word("x"))}

\* the attribute maps of at most n attributes and directives together: an
\* optional style attribute first, then attributes of distinct names
AttributeMaps(n) ==
    LET styled == IF n = 0 THEN {}
                  ELSE {<<Attr("style", StyleValue(d))>> : d \in SeqsUpTo(Directives, n - 1)}
        plain == {q \in SeqsUpTo(PlainAttrs, n) :
                     \A i, j \in 1..Len(q) : i # j => q[i].name # q[j].name}
    IN  UNION {{s \o q : q \in {r \in plain : Len(r) + Len(s) +
                                   (IF s = <<>> THEN 0 ELSE Len(s[1].value.nested)) <= n}} :
               s \in styled \cup {<<>>}}

\* applied: the calls made on the element so far, their directives and
\* attributes included
NoCall == [kind |-> "", input |-> <<>>, exc |-> "", applied |-> 0]

InitCss == element = HtmlElement /\ call = NoCall

\* CssParse.attr_style(style_attribute, element)
AttrStyle ==
    /\ call.applied < MaxDirectives
    /\ \E style_attribute \in SeqsUpTo(Directives, MaxDirectives - call.applied - 1) :
        LET done == attr_style(style_attribute, element)
        IN  /\ element' = done.el
            /\ call' = [kind |-> "style", input |-> style_attribute, exc |-> done.exc,
                        applied |-> call.applied + 1 + Len(style_attribute)]

\* Attribute().apply_attributes(attributes, element)
ApplyAttributes ==
    /\ call.applied < MaxDirectives
    /\ \E attributes \in AttributeMaps(MaxDirectives - call.applied - 1) :
        LET done == apply_attributes(attributes, element)
        IN  /\ element' = done.el
            /\ call' = [kind |-> "attributes", input |-> attributes, exc |-> done.exc,
                        applied |-> call.applied + 1 + Len(attributes) +
                            (IF attributes # <<>> /\ attributes[1].name = "style"
                             THEN Len(attributes[1].value.nested) ELSE 0)]

NextCss ==
    \/ AttrStyle
    \/ ApplyAttributes

CssInit == InitCss /\ InitTable /\ InitCellIdle /\ InitEmIdle /\ InitWalkIdle

CssNext == NextCss /\ UNCHANGED <<tableVars, cellVars, emVars, walkVars>>

SpecCss == CssInit /\ [][CssNext]_vars

-----------------------------------------------------------------------------
(* Properties of the style universe.                                       *)

\* the directives the last call handed to attr_style
CallDirectives ==
    IF call.kind = "style" THEN call.input
    ELSE IF call.kind = "attributes" /\ call.input # <<>> /\ call.input[1].name = "style"
    THEN call.input[1].value.nested
    ELSE <<>>

\* C6: once the display of an element is none it is none after every later
\* call (a style string or an attribute map) on that element, and a style
\* string that holds display: none leaves the display at none whatever
\* display directives follow in the same string.
C6_DisplayNoneSticks ==
    [][/\ element.display = "none" => element'.display = "none"
       /\ (call'.exc = "" /\ \E i \in 1..Len(CallDirectives') : CallDirectives'[i] = DisplayNone)
             => element'.display = "none"]_vars

\* display: none and then display: block in one string, and a string with
\* display: block applied to an element that is already hidden
C6_Witness ==
    /\ element.display = "none"
    /\ call.kind = "style"
    /\ \/ call.input = <<DisplayNone, DisplayBlock>>
       \/ call.input = <<DisplayBlock>>

RecognizedKeys ==
    {<<"display">>, <<"white", "-", "space">>, <<"margin", "-", "top">>,
     <<"margin", "-", "before">>, <<"margin", "-", "bottom">>, <<"margin", "-", "after">>,
     <<"padding", "-", "left">>, <<"padding", "-", "start">>,
     <<"horizontal", "-", "align">>, <<"vertical", "-", "align">>}

IsValidDirective(d) ==
    /\ d.colon
    /\ d.key \in RecognizedKeys
    /\ d.key[1] \in {"margin", "padding"} => d.value.kind = "length"
    /\ d.key = <<"horizontal", "-", "align">> => d.value.word \in HorizontalAlignment
    /\ d.key = <<"vertical", "-", "align">> => d.value.word \in VerticalAlignment

\* C7: every call that applies a style string completes without failing,
\* and when none of its directives is a valid recognized one the element's
\* fields are what they were.
C7_ApplyNeverFailsInvalidInert ==
    [][call'.kind = "style" \/ CallDirectives' # <<>> =>
          /\ call'.exc = ""
          /\ (\A i \in 1..Len(CallDirectives') : ~IsValidDirective(CallDirectives'[i]))
                => element' = element]_vars

-----------------------------------------------------------------------------
(* The length universe: one length handed to CssParse._get_em.             *)

Units == {"em", "qem", "rem", "px", "pt"}

Lengths ==
    {Length(sign, whole, frac, unit) :
        sign \in {1, -1}, whole \in 0..MaxWhole, frac \in {None} \cup 0..9, unit \in Units}
    \cup {Word("abc"), BadFloat("px"), Huge("em")}

NotCalled == [exc |-> "", val |-> None, called |-> FALSE]

InitEm == emIn \in Lengths /\ emOut = NotCalled

\* CssParse._get_em(emIn)
GetEm ==
    /\ ~emOut.called
    /\ emOut' = [exc |-> _get_em(emIn).exc, val |-> _get_em(emIn).val, called |-> TRUE]
    /\ UNCHANGED emIn

NextEm == GetEm

EmInit == InitEm /\ InitTable /\ InitCellIdle /\ InitCssIdle /\ InitWalkIdle

EmNext == NextEm /\ UNCHANGED <<tableVars, cellVars, cssVars, walkVars>>

SpecEm == EmInit /\ [][EmNext]_vars

Returned == emOut.called /\ emOut.exc = ""

\* the divisor of tenths: the number itself for the em family, an eighth of
\* it for every other unit
Divisor == IF emIn.unit \in {"em", "qem", "rem"} THEN 10 ELSE 80

Abs(n) == IF n < 0 THEN -n ELSE n

\* C8 as stated: the result is the nearest integer, a tie resolved away
\* from zero.
C8_TiesAwayFromZero ==
    Returned =>
        /\ 2 * Abs(emOut.val * Divisor - Tenths(emIn)) <= Divisor
        /\ 2 * Abs(emOut.val * Divisor - Tenths(emIn)) = Divisor
              => Abs(emOut.val) * Divisor > Abs(Tenths(emIn))

\* C8: the result is the nearest integer (of the number for an em-family
\* unit, of an eighth of the number otherwise), a tie resolved to the even
\* neighbour; 16px gives 2, 2em gives 2, -8px gives -1.
C8_TiesToEven ==
    Returned =>
        /\ 2 * Abs(emOut.val * Divisor - Tenths(emIn)) <= Divisor
        /\ 2 * Abs(emOut.val * Divisor - Tenths(emIn)) = Divisor => emOut.val % 2 = 0
        /\ emIn = Length(1, 16, None, "px") => emOut.val = 2
        /\ emIn = Length(1, 2, None, "em") => emOut.val = 2
        /\ emIn = Length(-1, 8, None, "px") => emOut.val = -1

\* 2.5em is a tie and comes out as 2
C8_Witness ==
    /\ Returned
    /\ emIn = Length(1, 2, 5, "em")
    /\ emOut.val = 2

-----------------------------------------------------------------------------
(* TableExtractor: the walk over the parsed tree.                          *)
(*                                                                         *)
(* A node is a record of its tag (tagged: the tag is a str), and its child *)
(* nodes.  frames is the stack of activations of _parse_html_tree, each    *)
(* with its node, its position pc and the index i of the next child; tags  *)
(* is state.tags, one tag name per frame; trace records what the walk did  *)
(* to the document state.                                                  *)

start_tag_handler_dict == {"table", "tr", "td", "th"}

end_tag_handler_dict == {"table", "td", "th"}

TagNames == {"table", "tr", "p"}

Node(tag, child_nodes) == [tagged |-> TRUE, tag |-> tag, child_nodes |-> child_nodes]

\* a node whose tag is no str; it has no children
Untagged == [tagged |-> FALSE, tag |-> "", child_nodes |-> <<>>]

RECURSIVE Forests(_)
\* the sequences of trees that have n nodes together
Forests(n) ==
    IF n = 0 THEN {<<>>}
    ELSE UNION {{<<t>> \o f : t \in {Node(tag, c) : tag \in TagNames, c \in Forests(j - 1)}
                                   \cup (IF j = 1 THEN {Untagged} ELSE {}),
                              f \in Forests(n - j)} : j \in 1..n}

Trees == UNION {{f[1] : f \in {g \in Forests(n) : Len(g) = 1}} : n \in 1..MaxNodes}

Event(ev, tag) == [ev |-> ev, tag |-> tag]

Frame(node) == [node |-> node, pc |-> "enter", i |-> 1, prev |-> ""]

\* HtmlDocumentState(config).tags: the frame of the body
InitialTags == <<"body">>

\* HtmlDocumentState.apply_starttag_layout: the new frame goes on state.tags
apply_starttag_layout(state_tags, tag) == Append(state_tags, tag)

\* state.tags.pop() that leaves the frame on the stack
pop_Keep(state_tags) ==
    [prev |-> state_tags[Len(state_tags)], tags |-> state_tags]

\* state.tags.pop()
pop(state_tags) ==
    [prev |-> state_tags[Len(state_tags)],
     tags |-> SubSeq(state_tags, 1, Len(state_tags) - 1)]

Top == frames[Len(frames)]

SetTop(f) == [frames EXCEPT ![Len(frames)] = f]

Return == SubSeq(frames, 1, Len(frames) - 1)

InitWalk ==
    /\ tree \in Trees
    /\ frames = <<Frame(tree)>>
    /\ tags = InitialTags
    /\ trace = <<>>

\* if isinstance(tree.tag, str): ... state.apply_starttag_layout(tree.tag, attrs)
Enter ==
    /\ frames # <<>> /\ Top.pc = "enter"
    /\ IF Top.node.tagged
       THEN /\ tags' = apply_starttag_layout(tags, Top.node.tag)
            /\ trace' = Append(trace, Event("push", Top.node.tag))
            /\ frames' = SetTop([Top EXCEPT !.pc = "start"])
       ELSE /\ frames' = Return
            /\ UNCHANGED <<tags, trace>>
    /\ UNCHANGED tree

\* if handler := self.start_tag_handler_dict.get(tree.tag): handler(state, attrs)
StartHandler ==
    /\ frames # <<>> /\ Top.pc = "start"
    /\ trace' = IF Top.node.tag \in start_tag_handler_dict
                THEN Append(trace, Event("start_handler", Top.node.tag))
                ELSE trace
    /\ frames' = SetTop([Top EXCEPT !.pc = "open"])
    /\ UNCHANGED <<tree, tags>>

\* cur = state.tags[-1]; cur.canvas.open_tag(cur)
OpenTag ==
    /\ frames # <<>> /\ Top.pc = "open"
    /\ trace' = Append(trace, Event("open_tag", tags[Len(tags)]))
    /\ frames' = SetTop([Top EXCEPT !.pc = "write"])
    /\ UNCHANGED <<tree, tags>>

\* state.tags[-1].write(tree.value)
WriteValue ==
    /\ frames # <<>> /\ Top.pc = "write"
    /\ trace' = Append(trace, Event("write", tags[Len(tags)]))
    /\ frames' = SetTop([Top EXCEPT !.pc = "children"])
    /\ UNCHANGED <<tree, tags>>

\* for node in tree.child_nodes: self._parse_html_tree(state, node)
Recurse ==
    /\ frames # <<>> /\ Top.pc = "children"
    /\ frames' = IF Top.i <= Len(Top.node.child_nodes)
                 THEN Append(SetTop([Top EXCEPT !.i = Top.i + 1]),
                             Frame(Top.node.child_nodes[Top.i]))
                 ELSE SetTop([Top EXCEPT !.pc = "end"])
    /\ UNCHANGED <<tree, tags, trace>>

\* if handler := self.end_tag_handler_dict.get(tree.tag): handler(state)
EndHandler ==
    /\ frames # <<>> /\ Top.pc = "end"
    /\ trace' = IF Top.node.tag \in end_tag_handler_dict
                THEN Append(trace, Event("end_handler", Top.node.tag))
                ELSE trace
    /\ frames' = SetTop([Top EXCEPT !.pc = "pop"])
    /\ UNCHANGED <<tree, tags>>

\* prev = state.tags.pop(); on an empty list it raises IndexError and the
\* walk ends there
Pop ==
    /\ frames # <<>> /\ Top.pc = "pop"
    /\ IF tags = <<>>
       THEN /\ trace' = Append(trace, Event("IndexError", Top.node.tag))
            /\ frames' = <<>>
            /\ UNCHANGED tags
       ELSE /\ tags' = pop(tags).tags
            /\ trace' = Append(trace, Event("pop", pop(tags).prev))
            /\ frames' = SetTop([Top EXCEPT !.pc = "close", !.prev = pop(tags).prev])
    /\ UNCHANGED tree

\* prev.canvas.close_tag(prev); return state.canvas
CloseTag ==
    /\ frames # <<>> /\ Top.pc = "close"
    /\ trace' = Append(trace, Event("close_tag", Top.prev))
    /\ frames' = Return
    /\ UNCHANGED <<tree, tags>>

NextWalk ==
    \/ Enter
    \/ StartHandler
    \/ OpenTag
    \/ WriteValue
    \/ Recurse
    \/ EndHandler
    \/ Pop
    \/ CloseTag

WalkInit == InitWalk /\ InitTable /\ InitCellIdle /\ InitCssIdle /\ InitEmIdle

WalkNext == NextWalk /\ UNCHANGED <<tableVars, cellVars, cssVars, emVars>>

SpecWalk == WalkInit /\ [][WalkNext]_vars

-----------------------------------------------------------------------------
(* Properties of the walk.                                                 *)

\* the activations whose node has been pushed and not yet popped
OpenNodes ==
    Cardinality({k \in 1..Len(frames) :
                    frames[k].pc \in {"start", "open", "write", "children", "end", "pop"}})

RECURSIVE ExpectedTrace(_)
RECURSIVE ExpectedForest(_)
\* what the walk of one node does, in the order the claim gives
ExpectedTrace(node) ==
    IF ~node.tagged THEN <<>>
    ELSE <<Event("push", node.tag)>>
         \o (IF node.tag \in start_tag_handler_dict
             THEN <<Event("start_handler", node.tag)>> ELSE <<>>)
         \o <<Event("open_tag", node.tag), Event("write", node.tag)>>
         \o ExpectedForest(node.child_nodes)
         \o (IF node.tag \in end_tag_handler_dict
             THEN <<Event("end_handler", node.tag)>> ELSE <<>>)
         \o <<Event("pop", node.tag), Event("close_tag", node.tag)>>

ExpectedForest(nodes) ==
    IF nodes = <<>> THEN <<>>
    ELSE ExpectedTrace(Head(nodes)) \o ExpectedForest(Tail(nodes))

IsPrefix(p, q) == Len(p) <= Len(q) /\ SubSeq(q, 1, Len(p)) = p

\* C9: at every step of the walk the stack depth is its depth before the
\* walk plus the number of tagged nodes that are open, the stack is not
\* empty when it is popped, what the walk did so far is a prefix of push,
\* start-handler, write, children in document order, end-handler, pop,
\* close_tag for each tagged node, and when the walk has returned the whole
\* of it was done and the stack is what it was before.
C9_StackBalanced ==
    /\ Len(tags) = Len(InitialTags) + OpenNodes
    /\ \A k \in 1..Len(trace) : trace[k].ev # "IndexError"
    /\ IsPrefix(trace, ExpectedTrace(tree))
    /\ frames = <<>> => trace = ExpectedTrace(tree) /\ tags = InitialTags

\* a finished walk of a tagged node holding a tagged node that holds a node
C9_Witness ==
    /\ frames = <<>>
    /\ tree.tagged
    /\ \E k \in 1..Len(tree.child_nodes) :
          /\ tree.child_nodes[k].tagged
          /\ tree.child_nodes[k].child_nodes # <<>>
    /\ Len(trace) >= 10

====
